---- MODULE Spec2Model ----
(***************************************************************************)
(* Model of the reactive pipelines of RxjsOperatorComponent                *)
(* (src/src/app/app.module.ts).  A program is a forest of observable       *)
(* expressions built by the calls the component makes (of, map, filter,    *)
(* take, concat, interval, merge, catchError); one subscription is the     *)
(* run of one tree.  The synchronous part of every subscribe call, timer   *)
(* callback and unsubscribe call is one action.  The creation functions    *)
(* and operators are those of rxjs, which the component imports; they are  *)
(* modelled by what the library does at the component's call sites.        *)
(***************************************************************************)
EXTENDS Integers, Sequences, FiniteSets, TLC

VARIABLES prog,     \* the observable expressions, a forest in preorder
          pc,       \* index of the next root to subscribe (program order)
          st,       \* st[i]: state of the subscriber that receives node i's output
          cnt,      \* cnt[i]: take's "seen" counter / interval's next number
          timers,   \* armed timers: records [node, due, seq, reg]; seq is the order of
                    \* the latest arming, reg the order of the timer's creation
          seq,      \* number of timer armings so far
          now,      \* virtual clock, ms since the subscribe calls
          out,      \* callbacks delivered to the final subscribers, in order
          armed,    \* nodes that ever armed a timer
          ncancel,  \* ncancel[r]: unsubscribe() calls made on root r's Subscription
          nticks,   \* timer callbacks run so far
          promise,  \* promise[i]: the promise node i consumes: [state, v, reacts]
          micro,    \* the microtask queue: promise reaction jobs [node, state, v]
          timeouts  \* pending setTimeout callbacks of promise executors

vars == <<prog, pc, st, cnt, timers, seq, now, out, armed, ncancel, nticks,
          promise, micro, timeouts>>

-----------------------------------------------------------------------------
(* Bounds *)

MaxLen == 2        \* longest argument list of of(...) in the generic programs
MaxTake == 2       \* largest take(n) in the generic programs
MaxTicks == 4      \* timer callbacks per behaviour
MaxCancels == 2    \* unsubscribe() calls per behaviour
MaxSubs == 3       \* subscribe calls in the programs that subscribe one stream repeatedly

-----------------------------------------------------------------------------
(* JavaScript values: numbers and strings *)

Num(n) == [t |-> "num", n |-> n, s |-> ""]
Str(s) == [t |-> "str", n |-> 0, s |-> s]

Digit(d) ==
  CASE d = 0 -> "0" [] d = 1 -> "1" [] d = 2 -> "2" [] d = 3 -> "3" [] d = 4 -> "4"
    [] d = 5 -> "5" [] d = 6 -> "6" [] d = 7 -> "7" [] d = 8 -> "8" [] OTHER -> "9"

RECURSIVE NatToStr(_)
NatToStr(n) == IF n < 10 THEN Digit(n) ELSE NatToStr(n \div 10) \o Digit(n % 10)

\* String(v), as applied by the + operator when one operand is a string
ToStr(v) == IF v.t = "str" THEN v.s ELSE NatToStr(v.n)

\* 'caught: ' + err
CaughtMsg(err) == Str("caught: " \o ToStr(err))

ErrorAt2 == Str("Error at 2")

\* { id: 1, name: 'John Doe' }
UserData == [t |-> "obj", n |-> 1, s |-> "John Doe"]

-----------------------------------------------------------------------------
(* The functions handed to map and filter *)

\* mutant: the projection throws on 3 instead of 2
ThrowsAt3(f, v) == f = "throwAt2" /\ v = Num(3)

\* does the projection throw on v?   x => { if (x === 2) throw 'Error at 2'; return x; }
Throws(f, v) == f = "throwAt2" /\ v = Num(2)

\* mutant: the projection throws its input instead of the message
ThrownInput(f, v) == v

Thrown(f, v) == ErrorAt2

\* mutant: val => val + 10 in place of val => val * 10
ProjectAdds(f, v) ==
  CASE f = "times10"  -> Num(v.n + 10)
    [] f = "times2"   -> Num(v.n * 2)
    [] OTHER          -> v

Project(f, v) ==
  CASE f = "times10"  -> Num(v.n * 10)
    [] f = "times2"   -> Num(v.n * 2)
    [] f = "throwAt2" -> v
    [] OTHER          -> v

Predicate(f, v) ==
  CASE f = "gt3"  -> v.n > 3
    [] f = "gt15" -> v.n > 15
    [] OTHER      -> TRUE

-----------------------------------------------------------------------------
(* Observable expressions.  An expression is a sequence of nodes in        *)
(* preorder; a node's first operand follows it, its second operand follows *)
(* the first one.                                                          *)

Node(op, size, vals, n, p, f) ==
  [op |-> op, size |-> size, vals |-> vals, n |-> n, p |-> p, f |-> f]

Of(vals)        == << Node("of", 1, vals, 0, 0, "") >>
Interval(p)     == << Node("interval", 1, <<>>, 0, p, "") >>
Map(S, f)       == << Node("map", 1 + Len(S), <<>>, 0, 0, f) >> \o S
Filter(S, f)    == << Node("filter", 1 + Len(S), <<>>, 0, 0, f) >> \o S
Take(S, n)      == << Node("take", 1 + Len(S), <<>>, n, 0, "") >> \o S
Concat(A, B)    == << Node("concat", 1 + Len(A) + Len(B), <<>>, 0, 0, "") >> \o A \o B
Merge(A, B)     == << Node("merge", 1 + Len(A) + Len(B), <<>>, 0, 0, "") >> \o A \o B
\* catchError(err => of('caught: ' + err)): the second operand is the handler's stream
CatchError(S)   == << Node("catchError", 2 + Len(S), <<>>, 0, 0, "") >> \o S
                     \o << Node("ofCaught", 1, <<>>, 0, 0, "") >>

\* from(p) over a promise, and p.then(result => console.log(...)); f names the promise
FromPromise(f)  == << Node("from", 1, <<>>, 0, 0, f) >>
ThenLog(f)      == << Node("then", 1, <<>>, 0, 0, f) >>

-----------------------------------------------------------------------------
(* The promises of the component.  An executor is the list of resolve and  *)
(* reject calls it makes while the promise is constructed, and the list it *)
(* makes in its setTimeout callback.                                       *)

Resolve(v) == [state |-> "fulfilled", v |-> v]
Reject(v)  == [state |-> "rejected", v |-> v]

\* the settle calls made synchronously by the executor
ExecutorNow(f) ==
  CASE f = "promise"       -> << Resolve(Str("any data for promise")) >>
    [] f = "fetchUserData" -> << Reject(Str("Failed to fetch user data")) >>
    [] OTHER               -> << >>

\* the delay of the executor's setTimeout; 0 when it sets none
ExecutorDelay(f) ==
  CASE f = "simplePromise" -> 500
    [] f = "fetchUserData" -> 1000
    [] OTHER               -> 0

\* the settle calls made by the setTimeout callback, in order
ExecutorLater(f) ==
  CASE f = "simplePromise" -> << Resolve(Str("Promise resolved!")),
                                 Reject(Str("Promise rejected!")) >>
    [] f = "fetchUserData" -> << Resolve(UserData) >>
    [] OTHER               -> << >>

PromiseNames == { "promise", "simplePromise", "fetchUserData" }

-----------------------------------------------------------------------------
(* Shape of the forest *)

Nodes == 1 .. Len(prog)

Subtree(i) == i .. (i + prog[i].size - 1)

\* the operator node whose operand i is; 0 for a root (its subscriber is the caller's)
Parent(i) ==
  LET above == { j \in 1 .. (i - 1) : i \in Subtree(j) }
  IN  IF above = {} THEN 0 ELSE CHOOSE j \in above : \A k \in above : k <= j

Roots == { i \in Nodes : Parent(i) = 0 }

RootOf(i) == CHOOSE r \in Roots : i \in Subtree(r)

ChildA(i) == i + 1

ChildB(i) == i + 1 + prog[i + 1].size

-----------------------------------------------------------------------------
(* Notifications *)

NextEv(v, o)  == [k |-> "next", v |-> v, o |-> o]
ErrorEv(v, o) == [k |-> "error", v |-> v, o |-> o]
CompleteEv(o) == [k |-> "complete", v |-> Num(0), o |-> o]

\* how a subscriber that received a terminal notification is recorded
Stopped(k) == IF k = "error" THEN "errored" ELSE "completed"

-----------------------------------------------------------------------------
(* The synchronous machinery.  m is the part of the state a call chain     *)
(* reads and writes: [st, cnt, timers, seq, now, out, armed, promise,      *)
(* micro, timeouts].                                                       *)

\* mutant: unsubscribe closes the subscribers but leaves their timers armed
CloseSubKeepsTimers(m, i) ==
  [m EXCEPT !.st = [k \in DOMAIN m.st |->
                      IF k \in Subtree(i) /\ m.st[k] = "active" THEN "unsubscribed"
                      ELSE m.st[k]]]

\* Subscription.unsubscribe() of the subscriber of node i: every subscriber chained
\* to it upstream is closed and every timer they own is cleared
CloseSub(m, i) ==
  [m EXCEPT !.st = [k \in DOMAIN m.st |->
                      IF k \in Subtree(i) /\ m.st[k] = "active" THEN "unsubscribed"
                      ELSE m.st[k]],
            !.timers = { t \in m.timers : t.node \notin Subtree(i) }]

\* mutant: a stopped subscriber still handles notifications
AcceptsAlways(m, i) == TRUE

\* Subscriber.next/error/complete act only while the subscriber is not stopped
Accepts(m, i) == m.st[i] = "active"

\* mutant: the closed flag is shared by all subscribers
ClosedAny(m, i) == \E k \in DOMAIN m.st : m.st[k] \notin { "idle", "active" }

\* subscriber.closed, as read by the loop of of(...)
Closed(m, i) == m.st[i] # "active"

\* mutant: take(0) is not special-cased
TakeIsEmptyNegativeOnly(n) == n < 0

\* take(n) with n <= 0 is the empty observable: the source is not subscribed
TakeIsEmpty(n) == n <= 0

\* mutant: take completes one value too late
TakeCompletesLate(seen, n) == n < seen

\* take: is the value counted as number `seen` forwarded, and does it end the stream?
TakeForwards(seen, n) == seen <= n
TakeCompletes(seen, n) == n <= seen

\* mutant: concat moves on to the next operand after an error too
ConcatContinuesOnError(ev) == ev.k # "next"

\* concat: the notification of the current operand after which the next one is subscribed
ConcatContinues(ev) == ev.k = "complete"

\* mutant: the first callback is due at once
FirstDueNow(t, p) == t

\* interval(p): the first callback is due one period after the subscription,
\* each later one one period after the previous
FirstDue(t, p) == t + p

\* mutant: a repeat is scheduled two periods after the previous callback
NextDueSkips(due, p) == due + 2 * p

NextDue(due, p) == due + p

\* mutant: merge completes as soon as one input has completed
MergeEitherDone(m, j) ==
  m.st[ChildA(j)] = "completed" \/ m.st[ChildB(j)] = "completed"

\* merge: the outer list is exhausted and no inner subscription is active
MergeAllDone(m, j) ==
  m.st[ChildA(j)] = "completed" /\ m.st[ChildB(j)] = "completed"

\* mutant: a later resolve or reject call settles the promise again
SettleAgain(m, i, s) ==
  [m EXCEPT !.promise[i] = [state |-> s.state, v |-> s.v, reacts |-> @.reacts],
            !.micro = IF m.promise[i].reacts
                      THEN Append(@, [node |-> i, state |-> s.state, v |-> s.v])
                      ELSE @]

\* resolve(v) / reject(v): only the first call on a pending promise settles it; the
\* reaction registered by then() is queued as a microtask
Settle(m, i, s) ==
  IF m.promise[i].state # "pending" THEN m
  ELSE [m EXCEPT !.promise[i] = [state |-> s.state, v |-> s.v, reacts |-> @.reacts],
                 !.micro = IF m.promise[i].reacts
                           THEN Append(@, [node |-> i, state |-> s.state, v |-> s.v])
                           ELSE @]

RECURSIVE SettleAll(_, _, _, _)
SettleAll(m, i, calls, k) ==
  IF k > Len(calls) THEN m ELSE SettleAll(Settle(m, i, calls[k]), i, calls, k + 1)

\* setTimeout(callback, delay) in a promise executor
ArmTimeout(m, i, delay) ==
  IF delay = 0 THEN m
  ELSE [m EXCEPT !.timeouts = @ \cup { [node |-> i, due |-> m.now + delay,
                                         seq |-> m.seq + 1, reg |-> m.seq + 1] },
                 !.seq = @ + 1]

\* new Promise(executor): the executor runs synchronously
NewPromise(m, i, f) ==
  LET m1 == [m EXCEPT !.promise[i] = [state |-> "pending", v |-> Num(0), reacts |-> FALSE]]
  IN  SettleAll(ArmTimeout(m1, i, ExecutorDelay(f)), i, ExecutorNow(f), 1)

\* promise.then(...): on a settled promise the reaction is queued at once, on a
\* pending one it waits for the settlement
ThenReact(m, i) ==
  IF m.promise[i].state = "pending"
  THEN [m EXCEPT !.promise[i].reacts = TRUE]
  ELSE [m EXCEPT !.micro = Append(@, [node |-> i, state |-> m.promise[i].state,
                                       v |-> m.promise[i].v])]

\* the caller's subscriber: the callbacks given to subscribe()
Deliver(m, i, ev) ==
  [m EXCEPT !.out = Append(@, [sub |-> i, k |-> ev.k, v |-> ev.v, o |-> ev.o, t |-> m.now])]

\* scheduling of the interval's callback: setInterval(..., p)
Arm(m, i, due) ==
  [m EXCEPT !.timers = @ \cup { [node |-> i, due |-> due, seq |-> m.seq + 1,
                                  reg |-> m.seq + 1] },
            !.seq = @ + 1,
            !.armed = @ \cup {i}]

\* mutant: the subscriber stays subscribed after error or complete
CloseSubNever(m, i, ev) == m

\* a subscriber unsubscribes itself after delivering error or complete
CloseSubIfTerminal(m, i, ev) == IF ev.k = "next" THEN m ELSE CloseSub(m, i)

RECURSIVE Emit(_, _, _), Subscribe(_, _, _), EmitAll(_, _, _, _)

\* node i's producer notifies its subscriber
Emit(m, i, ev) ==
  IF ~Accepts(m, i) THEN m
  ELSE
    LET j  == Parent(i)
        m1 == IF ev.k = "next" THEN m ELSE [m EXCEPT !.st[i] = Stopped(ev.k)]
    IN
    IF j = 0 THEN CloseSubIfTerminal(Deliver(m1, i, ev), i, ev)
    ELSE
    CASE prog[j].op = "map" ->
           IF ev.k = "next"
           THEN IF Throws(prog[j].f, ev.v)
                THEN Emit(m1, j, ErrorEv(Thrown(prog[j].f, ev.v), j))
                ELSE Emit(m1, j, NextEv(Project(prog[j].f, ev.v), ev.o))
           ELSE CloseSub(Emit(m1, j, ev), i)
      [] prog[j].op = "filter" ->
           IF ev.k = "next"
           THEN IF Predicate(prog[j].f, ev.v) THEN Emit(m1, j, ev) ELSE m1
           ELSE CloseSub(Emit(m1, j, ev), i)
      [] prog[j].op = "take" ->
           IF ev.k = "next"
           THEN LET seen == m1.cnt[j] + 1
                    m2 == [m1 EXCEPT !.cnt[j] = seen]
                IN  IF TakeForwards(seen, prog[j].n)
                    THEN LET m3 == Emit(m2, j, ev)
                         IN  IF TakeCompletes(seen, prog[j].n)
                             THEN Emit(m3, j, CompleteEv(j))
                             ELSE m3
                    ELSE m2
           ELSE CloseSub(Emit(m1, j, ev), i)
      [] prog[j].op = "concat" ->
           IF ev.k = "next" THEN Emit(m1, j, ev)
           ELSE IF ConcatContinues(ev) /\ i = ChildA(j)
                THEN Subscribe(CloseSub(m1, i), ChildB(j), ev.v)
                ELSE CloseSub(Emit(m1, j, ev), i)
      [] prog[j].op = "merge" ->
           IF ev.k = "next" THEN Emit(m1, j, ev)
           ELSE IF ev.k = "complete"
                THEN LET m2 == CloseSub(m1, i)
                     IN  IF MergeAllDone(m2, j) THEN Emit(m2, j, CompleteEv(j)) ELSE m2
                ELSE CloseSub(Emit(m1, j, ev), i)
      [] prog[j].op = "catchError" ->
           IF ev.k = "error" /\ i = ChildA(j)
           THEN Subscribe(CloseSub(m1, i), ChildB(j), ev.v)
           ELSE IF ev.k = "next" THEN Emit(m1, j, ev)
                ELSE CloseSub(Emit(m1, j, ev), i)
      [] OTHER -> m1

\* mutant: the loop of of(...) stops one argument early
RECURSIVE EmitAllButLast(_, _, _, _)
EmitAllButLast(m, i, vals, k) ==
  IF k < Len(vals) /\ ~Closed(m, i)
  THEN EmitAllButLast(Emit(m, i, NextEv(vals[k], i)), i, vals, k + 1)
  ELSE Emit(m, i, CompleteEv(i))

\* the synchronous loop of of(...):
\*   for (i < length && !subscriber.closed) next(...); complete()
EmitAll(m, i, vals, k) ==
  IF k <= Len(vals) /\ ~Closed(m, i)
  THEN EmitAll(Emit(m, i, NextEv(vals[k], i)), i, vals, k + 1)
  ELSE Emit(m, i, CompleteEv(i))

\* subscribe to the observable of node i; arg is the error handed to a catchError handler
Subscribe(m, i, arg) ==
  LET m1 == [m EXCEPT !.st[i] = "active"]
  IN
  CASE prog[i].op = "of"       -> EmitAll(m1, i, prog[i].vals, 1)
    [] prog[i].op \in { "from", "then" } ->
         ThenReact(NewPromise(m1, i, prog[i].f), i)
    [] prog[i].op = "ofCaught" -> EmitAll(m1, i, << CaughtMsg(arg) >>, 1)
    [] prog[i].op = "interval" -> Arm(m1, i, FirstDue(m1.now, prog[i].p))
    [] prog[i].op = "take"     ->
         IF TakeIsEmpty(prog[i].n) THEN Emit(m1, i, CompleteEv(i))
         ELSE Subscribe(m1, ChildA(i), arg)
    [] prog[i].op = "merge"    ->
         LET m2 == Subscribe(m1, ChildA(i), arg)
         IN  IF ~Closed(m2, i) THEN Subscribe(m2, ChildB(i), arg) ELSE m2
    [] OTHER                   -> Subscribe(m1, ChildA(i), arg)

-----------------------------------------------------------------------------
(* The programs *)

\* RxjsOperatorCall: of(1,2,3,4,5).pipe(map(val => val * 10), filter(val => val > 3))
DemoCall == Filter(Map(Of(<< Num(1), Num(2), Num(3), Num(4), Num(5) >>), "times10"), "gt3")

\* obsOf = of(10, 20, 30), and obsFrom = from([100, 200, 300])
ObsOf == Of(<< Num(10), Num(20), Num(30) >>)
ObsFrom == Of(<< Num(100), Num(200), Num(300) >>)

\* obsOf.pipe(map(x => x * 2)) and obsOf.pipe(filter(x => x > 15))
DemoMap == Map(ObsOf, "times2")
DemoFilter == Filter(ObsOf, "gt15")

\* concat(of('A', 'B'), of('C', 'D'))
DemoConcat == Concat(Of(<< Str("A"), Str("B") >>), Of(<< Str("C"), Str("D") >>))

\* interval(500).pipe(take(3))
DemoIntervalTake == Take(Interval(500), 3)

\* merge(interval(1000).pipe(take(2)), interval(500).pipe(take(2)))
Obs3 == Take(Interval(1000), 2)
Obs4 == Take(Interval(500), 2)
DemoMerge == Merge(Obs3, Obs4)

\* of(1, 2, 3).pipe(map(x => { if (x === 2) throw 'Error at 2'; return x; }),
\*                  catchError(err => of('caught: ' + err)))
DemoCatch == CatchError(Map(Of(<< Num(1), Num(2), Num(3) >>), "throwAt2"))

\* from(promise), simplePromise.then(...) and from(fetchUserData())
ObsFromPromise == FromPromise("promise")
SimplePromiseThen == ThenLog("simplePromise")
UserDataObservable == FromPromise("fetchUserData")

\* the subscribe calls of exampleOperators, in program order
ExampleOperators ==
  ObsOf \o ObsFrom \o ObsFromPromise \o SimplePromiseThen \o UserDataObservable
    \o DemoMap \o DemoFilter \o DemoConcat \o DemoIntervalTake \o DemoMerge \o DemoCatch

DemoPrograms ==
  { DemoCall, ObsOf, ObsFrom, DemoMap, DemoFilter, DemoConcat, DemoIntervalTake,
    Obs3, Obs4, DemoMerge, DemoCatch, ObsFromPromise, SimplePromiseThen,
    UserDataObservable, ExampleOperators }

\* the periods and the values the generic programs are built from
Periods == { 500, 1000 }
Vals == { Num(1), Num(2) }

RECURSIVE SeqsUpTo(_)
SeqsUpTo(n) ==
  IF n = 0 THEN { <<>> }
  ELSE LET shorter == SeqsUpTo(n - 1)
       IN  shorter \cup { Append(s, v) : s \in { x \in shorter : Len(x) = n - 1 }, v \in Vals }

OfStreams == { Of(s) : s \in SeqsUpTo(MaxLen) }

\* streams that may fail: the throwing projection of the catchError example over of(...)
ThrowStreams == { Map(S, "throwAt2") : S \in OfStreams }

IntervalStreams == { Interval(p) : p \in Periods }

Sources == OfStreams \cup ThrowStreams \cup IntervalStreams

TakeStreams == { Take(S, n) : S \in Sources, n \in 0 .. MaxTake }

\* the taken streams used as operands: those over sources that can emit, fail or tick
TakeOperands ==
  { Take(S, n) : S \in ThrowStreams \cup IntervalStreams, n \in 1 .. MaxTake }

Operands == Sources \cup TakeOperands

\* of(...).pipe(map(f), filter(p)) with the projections and predicates of the component
FilterMapStreams ==
  { Filter(Map(S, f), p) : S \in OfStreams, f \in { "times10", "times2" },
                           p \in { "gt3", "gt15" } }

\* interval(p).pipe(take(3)), the usage documented for interval
IntervalTakeStreams == { Take(Interval(p), 3) : p \in Periods }

\* from(...) over each promise of the component
PromiseStreams == { FromPromise(f) : f \in PromiseNames }

\* obsOf subscribed directly, through map(x => x * 2) and through filter(x => x > 15),
\* any number of times in any order
ObsOfUses == { ObsOf, DemoMap, DemoFilter }

RECURSIVE SubscribeLists(_)
SubscribeLists(n) ==
  IF n = 1 THEN ObsOfUses
  ELSE LET shorter == SubscribeLists(n - 1)
       IN  shorter \cup { P \o U : P \in shorter, U \in ObsOfUses }

\* two subscriptions to timer-backed streams of the component
TimerPairs == { A \o B : A \in { Obs3, Obs4 }, B \in { Obs3, Obs4 } }

GenericPrograms ==
  Operands
    \cup SubscribeLists(MaxSubs)
    \cup TimerPairs
    \cup PromiseStreams
    \cup TakeStreams
    \cup IntervalTakeStreams
    \cup FilterMapStreams
    \cup { Concat(A, B) : A \in Operands, B \in Operands }
    \cup { Merge(A, B) : A \in Operands, B \in Operands }
    \cup { CatchError(A) : A \in Operands }

Programs == DemoPrograms \cup GenericPrograms

-----------------------------------------------------------------------------
(* The state machine *)

Machine ==
  [st |-> st, cnt |-> cnt, timers |-> timers, seq |-> seq, now |-> now, out |-> out,
   armed |-> armed, promise |-> promise, micro |-> micro, timeouts |-> timeouts]

Install(m) ==
  /\ st' = m.st
  /\ cnt' = m.cnt
  /\ timers' = m.timers
  /\ seq' = m.seq
  /\ now' = m.now
  /\ out' = m.out
  /\ armed' = m.armed
  /\ promise' = m.promise
  /\ micro' = m.micro
  /\ timeouts' = m.timeouts

Init ==
  /\ prog \in Programs
  /\ pc = 1
  /\ st = [i \in 1 .. Len(prog) |-> "idle"]
  /\ cnt = [i \in 1 .. Len(prog) |-> 0]
  /\ timers = {}
  /\ seq = 0
  /\ now = 0
  /\ out = <<>>
  /\ armed = {}
  /\ ncancel = [i \in 1 .. Len(prog) |-> 0]
  /\ nticks = 0
  /\ promise = [i \in 1 .. Len(prog) |-> [state |-> "none", v |-> Num(0), reacts |-> FALSE]]
  /\ micro = <<>>
  /\ timeouts = {}

\* mutant: promise reactions and timer callbacks run between two statements
CallStackAny == TRUE

\* exampleOperators runs to its end before any promise reaction or timer callback
CallStackEmpty == pc > Len(prog)

\* observable.subscribe(...): the next subscribe call of the program, run to its return
SubscribeStep ==
  /\ pc <= Len(prog)
  /\ Install(Subscribe(Machine, pc, Num(0)))
  /\ pc' = pc + prog[pc].size
  /\ UNCHANGED <<prog, ncancel, nticks>>

\* mutant: among the timers due at the same time the latest armed runs first
NextTimerLatest(ts) ==
  CHOOSE t \in ts : \A u \in ts : t.due < u.due \/ (t.due = u.due /\ t.seq >= u.seq)

\* the timer whose callback runs next: earliest due time, then arming order
\* (a runtime that schedules each repeat one period after the callback ran)
NextTimer(ts) ==
  CHOOSE t \in ts : \A u \in ts : t.due < u.due \/ (t.due = u.due /\ t.seq <= u.seq)

\* the same for a runtime that keeps the repeats aligned to the timer's creation:
\* earliest due time, then creation order
NextTimerAligned(ts) ==
  CHOOSE t \in ts : \A u \in ts : t.due < u.due \/ (t.due = u.due /\ t.reg <= u.reg)

\* the order of two timers due at the same instant is the runtime's
NextTimers(ts) == { NextTimer(ts), NextTimerAligned(ts) }

\* mutant: the numbering starts at 1
IntervalValueFromOne(k) == k + 1

\* the number an interval emits at its k-th callback, counting from 0
IntervalValue(k) == k

\* one callback of a setInterval timer: emit the next number; the timer stays armed
\* for the next period unless the callback's chain cleared it
Tick ==
  /\ CallStackEmpty
  /\ micro = <<>>
  /\ timers \cup timeouts # {}
  /\ nticks < MaxTicks
  /\ \E t \in NextTimers(timers \cup timeouts) :
     /\ t \in timers
     /\ LET i  == t.node
            m0 == [Machine EXCEPT !.now = t.due, !.cnt[i] = @ + 1]
            m1 == Emit(m0, i, NextEv(Num(IntervalValue(cnt[i])), i))
            m2 == IF t \in m1.timers
                  THEN [m1 EXCEPT !.timers = (@ \ {t}) \cup
                           { [node |-> i, due |-> NextDue(t.due, prog[i].p),
                              seq |-> m1.seq + 1, reg |-> t.reg] },
                                  !.seq = @ + 1]
                  ELSE m1
        IN  Install(m2)
  /\ nticks' = nticks + 1
  /\ UNCHANGED <<prog, pc, ncancel>>

\* the callback of an executor's setTimeout: it runs once and makes its settle calls
Timeout ==
  /\ CallStackEmpty
  /\ micro = <<>>
  /\ timers \cup timeouts # {}
  /\ nticks < MaxTicks
  /\ \E t \in NextTimers(timers \cup timeouts) :
     /\ t \in timeouts
     /\ LET m0 == [Machine EXCEPT !.now = t.due, !.timeouts = @ \ {t}]
        IN  Install(SettleAll(m0, t.node, ExecutorLater(prog[t.node].f), 1))
  /\ nticks' = nticks + 1
  /\ UNCHANGED <<prog, pc, ncancel>>

\* the reaction from(promise) registers with then():
\*   value => { if (!subscriber.closed) { subscriber.next(value); subscriber.complete() } },
\*   err => subscriber.error(err)
FromReaction(m, i, job) ==
  IF job.state = "fulfilled"
  THEN IF ~Closed(m, i)
       THEN Emit(Emit(m, i, NextEv(job.v, i)), i, CompleteEv(i))
       ELSE m
  ELSE Emit(m, i, ErrorEv(job.v, i))

\* simplePromise.then(result => console.log('Promise example:', result)): no handler
\* for a rejection
ThenReaction(m, i, job) ==
  IF job.state = "fulfilled"
  THEN Deliver(m, i, [k |-> "log", v |-> job.v, o |-> i])
  ELSE m

\* one promise reaction job; the jobs run in queue order once the calling code has
\* returned, before any timer callback
RunMicrotask ==
  /\ CallStackEmpty
  /\ micro # <<>>
  /\ LET job == Head(micro)
         i   == job.node
         m0  == [Machine EXCEPT !.micro = Tail(@)]
     IN  Install(IF prog[i].op = "then" THEN ThenReaction(m0, i, job)
                 ELSE FromReaction(m0, i, job))
  /\ UNCHANGED <<prog, pc, ncancel, nticks>>

\* unsubscribe() calls made so far on the subscriptions of nodes 1 .. n
RECURSIVE CancelsMade(_)
CancelsMade(n) == IF n = 0 THEN 0 ELSE ncancel[n] + CancelsMade(n - 1)

\* subscription.unsubscribe() called by the owner of root r's Subscription
Cancel(r) ==
  /\ st[r] # "idle"
  /\ prog[r].op # "then"
  /\ CancelsMade(Len(prog)) < MaxCancels
  /\ Install(CloseSub(Machine, r))
  /\ ncancel' = [ncancel EXCEPT ![r] = @ + 1]
  /\ UNCHANGED <<prog, pc, nticks>>

CancelStep == \E r \in Roots : Cancel(r)

Next == SubscribeStep \/ Tick \/ Timeout \/ RunMicrotask \/ CancelStep

Spec == Init /\ [][Next]_vars

-----------------------------------------------------------------------------
(* What a subscriber observed *)

\* the callbacks delivered to root r's subscriber, in order
OutOf(r) == SelectSeq(out, LAMBDA e : e.sub = r)

\* the same, reduced to callback kind and value
Trace(r) == [x \in 1 .. Len(OutOf(r)) |-> [k |-> OutOf(r)[x].k, v |-> OutOf(r)[x].v]]

\* the delivery times of the onNext callbacks of root r
NextTimes(r) ==
  LET s == SelectSeq(OutOf(r), LAMBDA e : e.k = "next")
  IN  [x \in 1 .. Len(s) |-> s[x].t]

NextCount(r) == Len(NextTimes(r))

HasKind(r, k) == \E x \in 1 .. Len(OutOf(r)) : OutOf(r)[x].k = k

LastKind(r) == IF OutOf(r) = <<>> THEN "none" ELSE OutOf(r)[Len(OutOf(r))].k

LastValue(r) == OutOf(r)[Len(OutOf(r))].v

ActiveIn(i) == { k \in Subtree(i) : st[k] = "active" }

TimersIn(i) == { t \in timers : t.node \in Subtree(i) }

Subscribed == pc > Len(prog)

\* the subscribe call on root r has returned
Started(r) == pc > r

-----------------------------------------------------------------------------
(* C1: subscribing to the catchError example delivers exactly 1 and        *)
(* 'caught: Error at 2', then completes; 3 is never delivered and the      *)
(* error callback is never invoked.                                        *)

C1_CatchDemoTrace ==
  prog = DemoCatch =>
    /\ ~Subscribed => OutOf(1) = <<>>
    /\ Subscribed =>
         Trace(1) = << [k |-> "next", v |-> Num(1)],
                       [k |-> "next", v |-> Str("caught: Error at 2")],
                       [k |-> "complete", v |-> Num(0)] >>
    /\ ~HasKind(1, "error")
    /\ \A x \in 1 .. Len(OutOf(1)) : OutOf(1)[x].v # Num(3)

C1_Witness ==
  /\ prog = DemoCatch
  /\ Subscribed
  /\ st[2] = "errored"
  /\ LastKind(1) = "complete"

(* C2: per subscription at most one terminal callback is delivered, never  *)
(* both onError and onComplete, and no onNext follows the terminal one.    *)

C2_OneTerminalLast ==
  \A r \in Roots :
    \A x \in 1 .. Len(OutOf(r)) : OutOf(r)[x].k # "next" => x = Len(OutOf(r))

C2_Witness ==
  /\ prog[1].op = "merge"
  /\ LastKind(1) = "error"
  /\ NextCount(1) >= 1
  /\ armed # {}
  /\ ncancel[1] >= 1

(* C3: the merge example delivers exactly 4 values and then completes      *)
(* once, and only after both taken streams have completed, so not before   *)
(* the second value of the 1000 ms stream.                                 *)

C3_MergeDemoFourThenComplete ==
  prog = DemoMerge =>
    /\ NextCount(1) <= 4
    /\ ~HasKind(1, "error")
    /\ NextCount(1) = 4 <=> HasKind(1, "complete")
    /\ HasKind(1, "complete") =>
         /\ Len(OutOf(1)) = 5
         /\ LastKind(1) = "complete"
         /\ st[ChildA(1)] = "completed" /\ st[ChildB(1)] = "completed"
         /\ OutOf(1)[4] = [sub |-> 1, k |-> "next", v |-> Num(1), o |-> 3, t |-> 2000]
    /\ (Subscribed /\ ncancel[1] = 0 /\ timers = {}) => HasKind(1, "complete")

C3_Witness ==
  /\ prog = DemoMerge
  /\ NextCount(1) = 4
  /\ LastKind(1) = "complete"
  /\ ncancel[1] = 0

(* C4 (as claimed): in the merge example the four values are delivered at  *)
(* the 500, 1000, 1500 and 2000 ms marks, one value per mark.              *)

C4_OnePerMark ==
  prog = DemoMerge =>
    \A x \in 1 .. NextCount(1) : NextTimes(1)[x] = 500 * x

(* C4 (amended): in the merge example the four values are delivered at the *)
(* 500, 1000, 1000 and 2000 ms marks, in elapsed-time order; two values    *)
(* are delivered at the 1000 ms mark and none at the 1500 ms mark.         *)

C4_MergeDemoMarks ==
  prog = DemoMerge =>
    \A x \in 1 .. NextCount(1) : NextTimes(1)[x] = << 500, 1000, 1000, 2000 >>[x]

C4_Witness ==
  /\ prog = DemoMerge
  /\ NextTimes(1) = << 500, 1000, 1000, 2000 >>

(* C5: concat(A, B) subscribes to B only after A has completed; when A     *)
(* completes every value of A precedes every value of B and the result     *)
(* completes only after B completes; when A fails B is never subscribed,   *)
(* no value of B is delivered and A's failure is the terminal event.       *)

FromOperand(e, i) == e.o \in Subtree(i)

C5_ConcatSequential ==
  prog[1].op = "concat" =>
    LET a == ChildA(1)
        b == ChildB(1)
        s == OutOf(1)
    IN  /\ \A k \in Subtree(b) : st[k] # "idle" => st[a] = "completed"
        /\ \A x, y \in 1 .. Len(s) :
             (s[x].k = "next" /\ s[y].k = "next" /\ FromOperand(s[x], a) /\ FromOperand(s[y], b))
               => x < y
        /\ HasKind(1, "complete") => (st[a] = "completed" /\ st[b] = "completed")
        /\ st[a] = "errored" =>
             /\ \A k \in Subtree(b) : st[k] = "idle"
             /\ \A x \in 1 .. Len(s) : ~FromOperand(s[x], b)
             /\ LastKind(1) = "error"
             /\ FromOperand(s[Len(s)], a)

C5_Witness ==
  /\ prog[1].op = "concat"
  /\ prog[ChildA(1)].op = "take"
  /\ prog[ChildA(1) + 1].op = "interval"
  /\ st[ChildA(1)] = "completed"
  /\ \E x, y \in 1 .. Len(out) :
       /\ out[x].k = "next" /\ FromOperand(out[x], ChildA(1))
       /\ out[y].k = "next" /\ FromOperand(out[y], ChildB(1))
  /\ LastKind(1) = "complete"

(* C6: for n >= 1, take(S, n) delivers at most n values; on the n-th value *)
(* it delivers a completion and cancels its subscription to S, so nothing  *)
(* of S (no further timer tick) reaches the subscriber afterwards; if S    *)
(* completes or fails after fewer than n values, that terminal event is    *)
(* forwarded unchanged.                                                    *)

C6_TakeAtMostN ==
  (prog[1].op = "take" /\ prog[1].n >= 1) =>
    LET s == OutOf(1)
        n == prog[1].n
    IN  /\ NextCount(1) <= n
        /\ NextCount(1) = n =>
             /\ LastKind(1) = "complete"
             /\ Len(s) = n + 1
             /\ ActiveIn(2) = {}
             /\ TimersIn(2) = {}
        /\ st[2] = "completed" =>
             (LastKind(1) = "complete" /\ s[Len(s)].o \in Subtree(2))
        /\ st[2] = "errored" =>
             (LastKind(1) = "error" /\ LastValue(1) = ErrorAt2 /\ s[Len(s)].o \in Subtree(2))
        /\ (HasKind(1, "complete") /\ NextCount(1) < n) => st[2] = "completed"
        /\ HasKind(1, "error") => st[2] = "errored"

C6_Witness ==
  /\ prog[1].op = "take"
  /\ prog[2].op = "interval"
  /\ prog[1].n >= 2
  /\ NextCount(1) = prog[1].n
  /\ armed = {2}
  /\ timers = {}
  /\ ncancel[1] = 0

(* C7: take(S, 0) completes at once with no value delivered, and S is      *)
(* never caused to emit: S is not subscribed and no timer of S is started. *)

C7_TakeZero ==
  (prog[1].op = "take" /\ prog[1].n = 0 /\ Subscribed) =>
    /\ Trace(1) = << [k |-> "complete", v |-> Num(0)] >>
    /\ \A k \in Subtree(2) : st[k] = "idle"
    /\ armed = {}
    /\ timers = {}
    /\ seq = 0

C7_Witness ==
  /\ prog = Take(Interval(500), 0)
  /\ Subscribed
  /\ LastKind(1) = "complete"

(* C8: a subscription to interval(p) delivers 0, 1, 2, ... in increasing   *)
(* order without gaps or repeats, value k no earlier than k * p after the  *)
(* subscription, never completes or fails on its own, and once the         *)
(* subscriber has cancelled no further value is delivered.                 *)

C8_IntervalValues ==
  prog[1].op = "interval" =>
    \A x \in 1 .. Len(OutOf(1)) :
      /\ OutOf(1)[x].k = "next"
      /\ OutOf(1)[x].v = Num(x - 1)
      /\ OutOf(1)[x].t >= (x - 1) * prog[1].p

C8_NothingAfterCancel ==
  (prog[1].op = "interval" /\ ncancel[1] >= 1) => out' = out

C8_Interval == [] C8_IntervalValues /\ [][C8_NothingAfterCancel]_vars

C8_Witness ==
  /\ prog[1].op = "interval"
  /\ Len(OutOf(1)) >= 2
  /\ ncancel[1] >= 1

(* C9: merge(A, B) delivers a completion if and only if both A and B have  *)
(* completed; if either input fails the merged stream fails at that point, *)
(* the other input's subscription is cancelled and no later value of the   *)
(* other input is delivered.                                               *)

C9_MergeCompleteAndFail ==
  prog[1].op = "merge" =>
    LET a == ChildA(1)
        b == ChildB(1)
    IN  /\ HasKind(1, "complete") <=> (st[a] = "completed" /\ st[b] = "completed")
        /\ (st[a] = "errored" \/ st[b] = "errored") =>
             /\ LastKind(1) = "error"
             /\ LastValue(1) = ErrorAt2
             /\ ActiveIn(1) = {}
             /\ timers = {}
        /\ HasKind(1, "error") => (st[a] = "errored" \/ st[b] = "errored")

C9_Witness ==
  /\ prog[1].op = "merge"
  /\ prog[ChildA(1)].op = "interval"
  /\ st[ChildB(1)] = "errored"
  /\ st[ChildA(1)] = "unsubscribed"
  /\ armed # {}
  /\ LastKind(1) = "error"

(* C10: cancelling is idempotent; after a cancel no callback is delivered  *)
(* to that subscriber; every timer owned by the subscription is released   *)
(* at the cancel step; cancelling concat cancels only the active operand   *)
(* (later operands are never subscribed) and cancelling merge cancels all  *)
(* active operands.                                                        *)

C10_Released ==
  \A r \in Roots : ncancel[r] >= 1 => (ActiveIn(r) = {} /\ TimersIn(r) = {})

C10_CancelStep ==
  \A r \in Roots :
    /\ (ncancel[r] >= 1 /\ ncancel'[r] > ncancel[r]) =>
         UNCHANGED <<st, cnt, timers, seq, now, out, armed>>
    /\ ncancel[r] >= 1 => OutOf(r)' = OutOf(r)
    /\ (ncancel[r] >= 1 \/ ncancel'[r] > ncancel[r]) =>
         \A k \in Subtree(r) : st[k] = "idle" => st'[k] = "idle"

NextsOf(vals) == [x \in 1 .. Len(vals) |-> [k |-> "next", v |-> vals[x]]]

C11_OfDeliversArguments ==
  \A r \in Roots :
    prog[r].op = "of" =>
      /\ ~Started(r) => OutOf(r) = <<>>
      /\ Started(r) =>
           Trace(r) = NextsOf(prog[r].vals) \o << [k |-> "complete", v |-> Num(0)] >>
      /\ ~HasKind(r, "error")

C11_Witness ==
  /\ prog = ObsFrom
  /\ Subscribed
  /\ NextCount(1) = 3
  /\ LastKind(1) = "complete"

(* C12: in a pipeline without catchError an error raised by a source or by *)
(* a projection is delivered to onError exactly once with the same error   *)
(* value, nothing is delivered after it, no operator subscribes again, and *)
(* when the projection of map throws on v the values after v are never     *)
(* forwarded.                                                              *)

NoCatch == \A i \in Nodes : prog[i].op # "catchError"

ErrorCount(r) == Len(SelectSeq(OutOf(r), LAMBDA e : e.k = "error"))

RECURSIVE Before2(_)
Before2(vals) ==
  IF vals = <<>> \/ Head(vals) = Num(2) THEN <<>> ELSE << Head(vals) >> \o Before2(Tail(vals))

C12_ErrorDelivered ==
  NoCatch =>
    \A r \in Roots :
      /\ (\E i \in Subtree(r) : st[i] = "errored") <=> HasKind(r, "error")
      /\ HasKind(r, "error") =>
           /\ ErrorCount(r) = 1
           /\ LastKind(r) = "error"
           /\ LastValue(r) = IF prog[r].op = "from" THEN promise[r].v
                              ELSE Str("Error at 2")
           /\ ActiveIn(r) = {}
      /\ (Subscribed /\ prog[r].op = "map" /\ prog[r].f = "throwAt2" /\ prog[r + 1].op = "of") =>
           LET vals == prog[r + 1].vals
           IN  Trace(r) = NextsOf(Before2(vals)) \o
                 << IF Before2(vals) = vals
                    THEN [k |-> "complete", v |-> Num(0)]
                    ELSE [k |-> "error", v |-> Str("Error at 2")] >>

C12_NoResubscribe ==
  NoCatch => \A i \in Nodes : st[i] \notin {"idle", "active"} => st'[i] = st[i]

C12_ErrorPropagation == [] C12_ErrorDelivered /\ [][C12_NoResubscribe]_vars

C12_Witness ==
  /\ prog = Map(Of(<< Num(2), Num(1) >>), "throwAt2")
  /\ Subscribed
  /\ Trace(1) = << [k |-> "error", v |-> Str("Error at 2")] >>
  /\ st[2] = "unsubscribed"

(* C13 (as claimed): when two inputs of merge produce a value at the same  *)
(* instant the values are delivered in source registration order: a value  *)
(* of the second input never precedes a value of the first input          *)
(* delivered at the same instant.                                          *)

C13_TiesInRegistrationOrder ==
  prog[1].op = "merge" =>
    \A x, y \in 1 .. Len(out) :
      (/\ out[x].k = "next" /\ out[y].k = "next"
       /\ out[x].t = out[y].t
       /\ FromOperand(out[x], ChildA(1))
       /\ FromOperand(out[y], ChildB(1))) => x < y

(* C13 (amended): in merge(obs3, obs4) obs3's value 0 is delivered before  *)
(* obs4's value 1 at the 1000 ms instant; values at different instants are *)
(* delivered in order of their emission time regardless of source; two     *)
(* interval inputs ticking at the same instant are delivered in            *)
(* registration order whenever the first input's timer is at its first     *)
(* callback.                                                               *)

NextsWithOrigin(r) ==
  LET s == SelectSeq(OutOf(r), LAMBDA e : e.k = "next")
  IN  [x \in 1 .. Len(s) |-> [t |-> s[x].t, o |-> s[x].o, v |-> s[x].v]]

C13_MergeDemoOrder ==
  /\ prog = DemoMerge =>
       \A x \in 1 .. NextCount(1) :
         NextsWithOrigin(1)[x] =
           << [t |-> 500, o |-> 5, v |-> Num(0)], [t |-> 1000, o |-> 3, v |-> Num(0)],
              [t |-> 1000, o |-> 5, v |-> Num(1)], [t |-> 2000, o |-> 3, v |-> Num(1)] >>[x]
  /\ \A x, y \in 1 .. Len(out) : x < y => out[x].t <= out[y].t
  /\ (prog[1].op = "merge" /\ prog[2].op = "interval" /\ prog[3].op = "interval") =>
       \A x, y \in 1 .. Len(out) :
         (/\ out[x].k = "next" /\ out[y].k = "next"
          /\ out[x].t = out[y].t
          /\ out[x].o = 2 /\ out[x].v = Num(0)
          /\ out[y].o = 3) => x < y

C13_Witness ==
  /\ prog = DemoMerge
  /\ NextCount(1) >= 3
  /\ NextsWithOrigin(1)[2] = [t |-> 1000, o |-> 3, v |-> Num(0)]
  /\ NextsWithOrigin(1)[3] = [t |-> 1000, o |-> 5, v |-> Num(1)]

(* C17: for every finite list V, projection f and predicate p,             *)
(* of(V).pipe(map(f), filter(p)) delivers exactly the elements of          *)
(* [f(v) : v in V] that satisfy p, in source order, then completes; for    *)
(* RxjsOperatorCall this is 10, 20, 30, 40, 50 and for filter(x > 15) over *)
(* of(10, 20, 30) it is 20, 30.                                            *)

RECURSIVE SelectMapped(_, _, _)
SelectMapped(vals, f, p) ==
  IF vals = <<>> THEN <<>>
  ELSE (IF Predicate(p, Project(f, Head(vals))) THEN << Project(f, Head(vals)) >> ELSE <<>>)
         \o SelectMapped(Tail(vals), f, p)

Completion == << [k |-> "complete", v |-> Num(0)] >>

C17_FilterMap ==
  Subscribed =>
    /\ (prog[1].op = "filter" /\ prog[2].op = "map" /\ prog[3].op = "of") =>
         Trace(1) = NextsOf(SelectMapped(prog[3].vals, prog[2].f, prog[1].f)) \o Completion
    /\ prog = DemoCall =>
         Trace(1) = NextsOf(<< Num(10), Num(20), Num(30), Num(40), Num(50) >>) \o Completion
    /\ prog = DemoFilter =>
         Trace(1) = NextsOf(<< Num(20), Num(30) >>) \o Completion

C17_Witness ==
  /\ prog = Filter(Map(Of(<< Num(2), Num(1) >>), "times2"), "gt3")
  /\ Subscribed
  /\ Trace(1) = NextsOf(<< Num(4) >>) \o Completion

(* C18: obs3 = interval(1000).pipe(take(2)) emits the values 0, 1, 2, 3 at *)
(* 1-second intervals and obs4 = interval(500).pipe(take(2)) emits the     *)
(* values 0, 1 at 0.5-second intervals.                                    *)

NextsWithTime(r) ==
  LET s == SelectSeq(OutOf(r), LAMBDA e : e.k = "next")
  IN  [x \in 1 .. Len(s) |-> [t |-> s[x].t, v |-> s[x].v]]

C18_CommentedValues ==
  /\ (prog = Obs3 /\ LastKind(1) = "complete") =>
       NextsWithTime(1) = << [t |-> 1000, v |-> Num(0)], [t |-> 2000, v |-> Num(1)],
                             [t |-> 3000, v |-> Num(2)], [t |-> 4000, v |-> Num(3)] >>
  /\ (prog = Obs4 /\ LastKind(1) = "complete") =>
       NextsWithTime(1) = << [t |-> 500, v |-> Num(0)], [t |-> 1000, v |-> Num(1)] >>

(* C19: subscribing to interval(p).pipe(take(3)) delivers exactly 0, 1, 2, *)
(* one value per period p, then completes, and after the completion the    *)
(* timer is released so that no further tick is produced for the           *)
(* subscription.                                                           *)

IsIntervalTake3 == prog[1].op = "take" /\ prog[1].n = 3 /\ prog[2].op = "interval"

C19_ThreeValues ==
  IsIntervalTake3 =>
    LET p == prog[2].p
    IN  /\ \A x \in 1 .. NextCount(1) :
             NextsWithTime(1)[x] = [t |-> x * p, v |-> Num(x - 1)]
        /\ NextCount(1) <= 3
        /\ NextCount(1) = 3 <=> HasKind(1, "complete")
        /\ ~HasKind(1, "error")
        /\ HasKind(1, "complete") =>
             (LastKind(1) = "complete" /\ timers = {} /\ ActiveIn(1) = {})
        /\ (Subscribed /\ ncancel[1] = 0 /\ timers = {}) => HasKind(1, "complete")

C19_NoTickAfterCompletion ==
  (IsIntervalTake3 /\ HasKind(1, "complete")) =>
    (out' = out /\ timers' = {} /\ nticks' = nticks /\ cnt' = cnt)

C19_IntervalTake3 == [] C19_ThreeValues /\ [][C19_NoTickAfterCompletion]_vars

C19_Witness ==
  /\ prog = DemoIntervalTake
  /\ NextsWithTime(1) = << [t |-> 500, v |-> Num(0)], [t |-> 1000, v |-> Num(1)],
                           [t |-> 1500, v |-> Num(2)] >>
  /\ LastKind(1) = "complete"
  /\ ncancel[1] >= 1

(* C15: the promise built by fetchUserData settles exactly once and the    *)
(* first settlement wins: it is rejected with 'Failed to fetch user data'  *)
(* while it is constructed and the resolve call made 1000 ms later has no  *)
(* effect.  The subscriber of from(fetchUserData()) receives exactly one   *)
(* onError with that message and never onNext or onComplete, also after    *)
(* the 1000 ms timer has fired.                                            *)

FetchRoots == { r \in Roots : prog[r].op = "from" /\ prog[r].f = "fetchUserData" }

JobsFor(i) == { x \in 1 .. Len(micro) : micro[x].node = i }

FailedToFetch == Str("Failed to fetch user data")

C15_RejectedOnly ==
  \A r \in FetchRoots :
    st[r] # "idle" =>
      /\ promise[r].state = "rejected"
      /\ promise[r].v = FailedToFetch
      /\ \A x \in JobsFor(r) : micro[x].state = "rejected" /\ micro[x].v = FailedToFetch
      /\ ~HasKind(r, "next")
      /\ ~HasKind(r, "complete")
      /\ Trace(r) \in { <<>>, << [k |-> "error", v |-> FailedToFetch] >> }
      /\ (Subscribed /\ JobsFor(r) = {} /\ ncancel[r] = 0) =>
           Trace(r) = << [k |-> "error", v |-> FailedToFetch] >>

\* a settled promise keeps its state and its value
C15_SettledStays ==
  \A i \in Nodes :
    promise[i].state \in { "fulfilled", "rejected" } =>
      (promise'[i].state = promise[i].state /\ promise'[i].v = promise[i].v)

C15_FirstSettlementWins == [] C15_RejectedOnly /\ [][C15_SettledStays]_vars

C15_Witness ==
  /\ prog = UserDataObservable
  /\ now = 1000
  /\ nticks = 1
  /\ timeouts = {}
  /\ promise[1].state = "rejected"
  /\ Trace(1) = << [k |-> "error", v |-> FailedToFetch] >>

(* C16: every subscription is an independent full evaluation.  Whatever    *)
(* other subscribe calls the program makes, in whatever order, and whether *)
(* or not other subscriptions were cancelled, a subscription to obsOf      *)
(* receives 10, 20, 30 and a completion, one through map(x => x * 2)       *)
(* receives 20, 40, 60 and a completion, one through filter(x => x > 15)   *)
(* receives 20, 30 and a completion; a subscription to a timed stream      *)
(* counts from 0 on its own timer; and cancelling one subscription leaves  *)
(* the subscribers, counters, timers and log of every other one unchanged. *)

Tree(r) == SubSeq(prog, r, r + prog[r].size - 1)

Completed(vals) == NextsOf(vals) \o << [k |-> "complete", v |-> Num(0)] >>

C16_FullEvaluation ==
  \A r \in Roots :
    /\ ~Started(r) => OutOf(r) = <<>>
    /\ (Started(r) /\ Tree(r) = ObsOf) =>
         Trace(r) = Completed(<< Num(10), Num(20), Num(30) >>)
    /\ (Started(r) /\ Tree(r) = DemoMap) =>
         Trace(r) = Completed(<< Num(20), Num(40), Num(60) >>)
    /\ (Started(r) /\ Tree(r) = DemoFilter) =>
         Trace(r) = Completed(<< Num(20), Num(30) >>)
    /\ (Tree(r) \in { Obs3, Obs4 }) =>
         /\ \A x \in 1 .. NextCount(r) :
              NextsWithTime(r)[x] = [t |-> x * prog[r + 1].p, v |-> Num(x - 1)]
         /\ (Subscribed /\ ncancel[r] = 0 /\ TimersIn(r) = {}) =>
              Trace(r) = Completed(<< Num(0), Num(1) >>)

C16_CancelTouchesOneSubscription ==
  \A r \in Roots :
    ncancel'[r] > ncancel[r] =>
      \A q \in Roots \ {r} :
        /\ OutOf(q)' = OutOf(q)
        /\ TimersIn(q)' = TimersIn(q)
        /\ \A k \in Subtree(q) : st'[k] = st[k] /\ cnt'[k] = cnt[k]

C16_Independent == [] C16_FullEvaluation /\ [][C16_CancelTouchesOneSubscription]_vars

C16_Witness ==
  /\ prog = DemoFilter \o ObsOf \o DemoMap
  /\ Subscribed
  /\ ncancel[1] >= 1
  /\ Trace(3) = Completed(<< Num(10), Num(20), Num(30) >>)
  /\ Trace(4) = Completed(<< Num(20), Num(40), Num(60) >>)

(* C14: within one call of exampleOperators every pipeline that is not     *)
(* backed by a timer or a promise (of, from over an array, map, filter,    *)
(* concat of two of-streams, the catchError pipeline) delivers all its     *)
(* values and its terminal event during its subscribe call, so all their   *)
(* outputs precede every delivery of a promise-backed or interval-backed   *)
(* stream, although the promise-backed streams are subscribed earlier.     *)

Deferred(r) == \E i \in Subtree(r) : prog[i].op \in { "interval", "from", "then" }

SyncRoots == { r \in Roots : ~Deferred(r) }

SubsOf(log) == [x \in 1 .. Len(log) |-> log[x].sub]

C14_SyncDuringSubscribe ==
  /\ \A r \in SyncRoots :
       /\ ~Started(r) => OutOf(r) = <<>>
       /\ Started(r) => LastKind(r) \in { "complete", "error" }
       /\ \A x \in 1 .. Len(OutOf(r)) : OutOf(r)[x].t = 0
  /\ \A x \in 1 .. Len(out) : \A y \in (x + 1) .. Len(out) :
       ~(Deferred(out[x].sub) /\ ~Deferred(out[y].sub))
  /\ prog = ExampleOperators =>
       /\ ~Subscribed => \A x \in 1 .. Len(out) : ~Deferred(out[x].sub)
       /\ Subscribed =>
            /\ Len(out) >= 23
            /\ SubsOf(SubSeq(out, 1, 23)) =
                 << 1, 1, 1, 1, 2, 2, 2, 2, 6, 6, 6, 6, 8, 8, 8,
                    10, 10, 10, 10, 10, 20, 20, 20 >>
            /\ \A x \in 24 .. Len(out) : Deferred(out[x].sub)

C14_NothingLater ==
  \A r \in SyncRoots : Started(r) => OutOf(r)' = OutOf(r)

C14_SyncBeforeDeferred == [] C14_SyncDuringSubscribe /\ [][C14_NothingLater]_vars

C14_Witness ==
  /\ prog = ExampleOperators
  /\ Subscribed
  /\ Len(out) >= 27
  /\ SubsOf(SubSeq(out, 24, 27)) = << 3, 3, 5, 4 >>
  /\ NextCount(13) >= 1
  /\ CancelsMade(Len(prog)) = 0

====
